---- MODULE Spec2Model ----
(***************************************************************************)
(* Model of the two SSD1306 movie players of the repository:               *)
(*   - src/wifi-videoplayer.ino : player with web uploader (prog = "wifi") *)
(*   - src/unnamed/part_000     : stand-alone player      (prog = "basic") *)
(* Files are byte sequences; the header is decoded from its 32 bytes the   *)
(* way the packed little-endian struct MovieHeader overlays them.          *)
(***************************************************************************)
EXTENDS Integers, Sequences, FiniteSets, TLC

VARIABLES
  prog,          \* which sketch runs: "wifi" or "basic"
  pc,            \* "boot" (before setup), "run" (in loop), "halt" (while(1))
  disk,          \* /movie.bin on LittleFS: [exists, data]
  fOpen,         \* File f is open (bool(f))
  fPos,          \* read cursor of f
  hdr,           \* MovieHeader hdr (the decoded fields the players use)
  frameSize,     \* uint32_t frameSize
  frameDelayMs,  \* uint32_t frameDelayMs
  hasHeader,     \* bool hasHeader
  lastMs,        \* static uint32_t lastMs of loop()
  now,           \* millis()
  uploadFile,    \* static File uploadFile of handleUpload is open
  upState,       \* transport: "idle" or "active" (between START and END/ABORTED)
  replacing,     \* history: a START was handled and no END since
  openRet,       \* history: return value of the last openMovieFileAndReadHeader
  lastAct,       \* history: the last operation that ran
  tickReads,     \* history: number of f.read frame reads of the last loop()
  buf,           \* history: the frame buffer the last loop() handed to the sink
  bufOff,        \* history: file offset of the last frame dispatched since the open (-1: none)
  tiles,         \* history: drawTile calls of the last loop(), in call order
  sent,          \* history: the chunks delivered since UPLOAD_FILE_START, concatenated
  nLoops,        \* loop iterations so far (bounded)
  nEvents        \* transport events handled so far (bounded)

vars == <<prog, pc, disk, fOpen, fPos, hdr, frameSize, frameDelayMs, hasHeader,
          lastMs, now, uploadFile, upState, replacing, openRet, lastAct,
          tickReads, buf, bufOff, tiles, sent, nLoops, nEvents>>

\* ---- bounds of the model ----
MaxLoops == 5
MaxEvents == 4

\* ---- program constants ----
HeaderSize == 32
LegacyWidth == 128
LegacyHeight == 64
LegacyFpsMilli == 15000
FallbackDelayMs == 66
NoFileDelayMs == 100

U8 == 256
U16 == 65536

\* ---- uint32_t clock values (millis(), lastMs), kept as <<high, low>> 16-bit halves ----
ToU32(n) == <<(n \div U16) % U16, n % U16>>
AddU32(a, n) == <<(a[1] + (a[2] + n) \div U16) % U16, (a[2] + n) % U16>>
\* a - b modulo 2^32
SubU32(a, b) ==
  LET borrow == IF a[2] < b[2] THEN 1 ELSE 0
  IN <<(a[1] - b[1] - borrow + U16) % U16, (a[2] - b[2] + U16) % U16>>
LtU32(a, b) == a[1] < b[1] \/ (a[1] = b[1] /\ a[2] < b[2])
\* a + b modulo 2^32, both as halves
PlusU32(a, b) == <<(a[1] + b[1] + (a[2] + b[2]) \div U16) % U16, (a[2] + b[2]) % U16>>

Min(a, b) == IF a < b THEN a ELSE b

\* "SSD1306V": the 8 bytes strncmp(..., "SSD1306V1", 8) compares
Magic == <<83, 83, 68, 49, 51, 48, 54, 86>>

\* ---- byte-level layout of MovieHeader (packed, little endian) ----
LE16(v) == <<v % 256, (v \div 256) % 256>>
LE32(v) == <<v % 256, (v \div 256) % 256, (v \div 65536) % 256, (v \div 16777216) % 256>>
Zeros(n) == [i \in 1..n |-> 0]

HeaderBytes(magic, w, h, fps, count, flags) ==
  magic \o LE16(w) \o LE16(h) \o LE32(fps) \o LE32(count) \o <<flags>> \o Zeros(11)

RdU16(b, off) == b[off + 1] + 256 * b[off + 2]
RdU32(b, off) == b[off + 1] + 256 * b[off + 2] + 65536 * b[off + 3] + 16777216 * b[off + 4]

\* the fields of struct MovieHeader overlaid on the 32 bytes b (reserved[11] is unused)
HdrMagic(b) == SubSeq(b, 1, 8)
HdrHeight(b) == RdU16(b, 10)
MovieHeader(b) ==
  [width       |-> RdU16(b, 8),
   height      |-> RdU16(b, 10),
   fps_milli   |-> RdU32(b, 12),
   frame_count |-> RdU32(b, 16),
   flags       |-> b[21]]

\* File::read(buf, n) at cursor pos: the bytes delivered (short at end of file)
FileRead(data, pos, n) == SubSeq(data, pos + 1, Min(pos + n, Len(data)))

\* ---- helpers of wifi-videoplayer.ino ----

\* mutant: the handle is left as it was
safeCloseFile_Leak(open) == open

\* safeCloseFile(file): the handle's open state after the call
safeCloseFile(open) == FALSE

\* mutant: the height % 8 test is missing
readHeaderFromFile_AnyHeight(data) ==
  LET got == FileRead(data, 0, HeaderSize) IN
  IF Len(got) # HeaderSize THEN [ok |-> FALSE, pos |-> Len(got)]
  ELSE IF HdrMagic(got) # Magic THEN [ok |-> FALSE, pos |-> HeaderSize]
  ELSE [ok |-> TRUE, pos |-> HeaderSize, hdr |-> MovieHeader(got)]

\* readHeaderFromFile(file, outHdr): [ok, hdr]; the cursor ends after the bytes read
readHeaderFromFile(data) ==
  LET got == FileRead(data, 0, HeaderSize) IN
  IF Len(got) # HeaderSize THEN [ok |-> FALSE, pos |-> Len(got)]
  ELSE IF HdrMagic(got) # Magic THEN [ok |-> FALSE, pos |-> HeaderSize]
  ELSE IF HdrHeight(got) % 8 # 0 THEN [ok |-> FALSE, pos |-> HeaderSize]
  ELSE [ok |-> TRUE, pos |-> HeaderSize, hdr |-> MovieHeader(got)]

\* fpsMilliToMs(fps_milli): the sum is 64-bit and the quotient is at most 1000000,
\* so neither wraps
fpsMilliToMs(fps_milli) ==
  IF fps_milli = 0 THEN FallbackDelayMs
  ELSE (1000000 + fps_milli \div 2) \div fps_milli

\* mutant: one byte per pixel row instead of one per 8 rows
FrameSizeOf_PerRow(w, h) == w * h

\* frameSize = (uint32_t)hdr.width * (hdr.height / 8); width and height are 16-bit,
\* so the product is below 2^32 and does not wrap
FrameSizeOf(w, h) == w * (h \div 8)

\* mutant: the f.seek(0) of the legacy fallback is missing
LegacySession_NoSeek ==
  [ret |-> TRUE, fOpen |-> TRUE, fPos |-> HeaderSize, hasHeader |-> FALSE,
   hdr |-> [width |-> LegacyWidth, height |-> LegacyHeight, fps_milli |-> LegacyFpsMilli,
            frame_count |-> 0, flags |-> 0],
   frameSize |-> LegacyWidth * (LegacyHeight \div 8),
   frameDelayMs |-> 1000 \div 15]

\* the legacy fallback of openMovieFileAndReadHeader (header invalid)
LegacySession ==
  [ret |-> TRUE, fOpen |-> TRUE, fPos |-> 0, hasHeader |-> FALSE,
   hdr |-> [width |-> LegacyWidth, height |-> LegacyHeight, fps_milli |-> LegacyFpsMilli,
            frame_count |-> 0, flags |-> 0],
   frameSize |-> FrameSizeOf(LegacyWidth, LegacyHeight),
   frameDelayMs |-> 1000 \div 15]

\* the good-header branch of openMovieFileAndReadHeader
HeaderSession(h) ==
  [ret |-> TRUE, fOpen |-> TRUE, fPos |-> HeaderSize, hasHeader |-> TRUE,
   hdr |-> h,
   frameSize |-> FrameSizeOf(h.width, h.height),
   frameDelayMs |-> fpsMilliToMs(h.fps_milli)]

\* mutant: on an invalid header only hasHeader is cleared, the old shape stays
openMovieFileAndReadHeader_Stale(d, oldHdr, oldFrameSize, oldDelay) ==
  IF ~d.exists
  THEN [ret |-> FALSE, fOpen |-> FALSE, fPos |-> 0, hasHeader |-> FALSE,
        hdr |-> oldHdr, frameSize |-> oldFrameSize, frameDelayMs |-> oldDelay]
  ELSE LET rh == readHeaderFromFile(d.data) IN
       IF ~rh.ok
       THEN [ret |-> TRUE, fOpen |-> TRUE, fPos |-> 0, hasHeader |-> FALSE,
             hdr |-> oldHdr, frameSize |-> oldFrameSize, frameDelayMs |-> oldDelay]
       ELSE HeaderSession(rh.hdr)

\* openMovieFileAndReadHeader() on file d, given the globals before the call:
\* the return value and the globals after it
openMovieFileAndReadHeader(d, oldHdr, oldFrameSize, oldDelay) ==
  IF ~d.exists
  THEN [ret |-> FALSE, fOpen |-> FALSE, fPos |-> 0, hasHeader |-> FALSE,
        hdr |-> oldHdr, frameSize |-> oldFrameSize, frameDelayMs |-> oldDelay]
  ELSE LET rh == readHeaderFromFile(d.data) IN
       IF ~rh.ok THEN LegacySession ELSE HeaderSession(rh.hdr)

\* mutant: the seek at end of stream always goes to byte 0
FirstFrameOffset_Zero(hh) == 0

\* loop(): seek target at end of stream
FirstFrameOffset(hh) == IF hh THEN HeaderSize ELSE 0

\* mutant: the runtime invert that part_000 keeps commented out
SinkBytes_Invert(b, flags) ==
  IF flags % 2 = 1 THEN [i \in DOMAIN b |-> 255 - b[i]] ELSE b

\* loop(): the bytes handed to the sink for a frame read into the buffer b
\* (no use of hdr.flags: part_000 lines 99-101 are a comment)
SinkBytes(b, flags) == b

\* loop(): the drawTile calls for buffer b, in call order (8-bit page and tile counters)
DrawTiles(b, h) ==
  LET pages == (h.height \div 8) % U8
      tilesPerRow == (h.width \div 8) % U8
  IN [p \in 1..pages |->
        LET rowOff == (p - 1) * h.width IN
        [x |-> 0, y |-> p - 1, cnt |-> tilesPerRow,
         data |-> SubSeq(SinkBytes(b, h.flags), rowOff + 1, rowOff + tilesPerRow * 8)]]

\* ---- helpers of part_000 (the stand-alone player) ----

\* readHeader(): reads into hdr itself (the cursor is at 0 after the open);
\* on success sets frameSize and frameDelayMs, truncating and clamping to 1 ms
readHeader(data) ==
  LET got == FileRead(data, 0, HeaderSize) IN
  IF Len(got) # HeaderSize THEN [ok |-> FALSE]
  ELSE IF HdrMagic(got) # Magic THEN [ok |-> FALSE]
  ELSE IF HdrHeight(got) % 8 # 0 THEN [ok |-> FALSE]
  ELSE LET h == MovieHeader(got)
           fps == IF h.fps_milli = 0 THEN LegacyFpsMilli ELSE h.fps_milli
           d == 1000000 \div fps
       IN [ok |-> TRUE,
           hdr |-> [h EXCEPT !.fps_milli = fps],
           frameSize |-> (h.width * (h.height \div 8)),
           frameDelayMs |-> IF d = 0 THEN 1 ELSE d]

\* ---- the files of the model ----

FrameBytes(k, n) == [i \in 1..n |-> (k * 53 + i * 7) % 256]
NotMagic == <<82, 73, 70, 70, 0, 1, 2, 3>>

NoFile == [exists |-> FALSE, data |-> <<>>]
File(bytes) == [exists |-> TRUE, data |-> bytes]

\* the scenario stream: 128x64 @ 30 fps, 2 frames, flags bit 0 set
ScenarioFile ==
  File(HeaderBytes(Magic, 128, 64, 30000, 2, 1) \o FrameBytes(1, 1024) \o FrameBytes(2, 1024))
\* 3 complete 8x16 frames and 5 trailing bytes
SmallFile ==
  File(HeaderBytes(Magic, 8, 16, 15000, 3, 0) \o FrameBytes(3, 16) \o FrameBytes(4, 16)
       \o FrameBytes(5, 16) \o FrameBytes(6, 5))
\* headerless: 2 raw 128x64 frames and 100 trailing bytes
LegacyFile == File(NotMagic \o FrameBytes(7, 2140))
\* shorter than a header
ShortFile == File(FrameBytes(8, 10))
\* good magic, height 60: one legacy frame fits
BadHeightFile == File(HeaderBytes(Magic, 128, 60, 15000, 1, 0) \o FrameBytes(9, 1024))
\* more than 2000 fps
FastFile ==
  File(HeaderBytes(Magic, 8, 8, 2000001, 2, 1) \o FrameBytes(10, 8) \o FrameBytes(11, 8))
\* fps_milli = 0
ZeroFpsFile == File(HeaderBytes(Magic, 8, 8, 0, 1, 0) \o FrameBytes(12, 8))
\* headered, but less than one frame of data
TruncatedFile == File(HeaderBytes(Magic, 8, 16, 15000, 1, 0) \o FrameBytes(13, 10))

\* headered, 256 pages: height / 8 does not fit the 8-bit page counter
TallFile == File(HeaderBytes(Magic, 8, 2048, 15000, 1, 0) \o FrameBytes(17, 2048))

BootFiles == {NoFile, ScenarioFile, SmallFile, LegacyFile, ShortFile, BadHeightFile,
              FastFile, ZeroFpsFile, TruncatedFile, TallFile}

\* the chunks the transport may deliver
UploadChunks == {HeaderBytes(Magic, 8, 16, 30000, 2, 1),
                 FrameBytes(14, 16) \o FrameBytes(15, 16),
                 NotMagic \o FrameBytes(16, 30)}

\* time that passes between two readings of millis()
Deltas == {10, 70}
\* what an unfilled byte of a new uint8_t[] may hold
UninitBytes == {0, 165}

NoHdr == [width |-> 0, height |-> 0, fps_milli |-> 0, frame_count |-> 0, flags |-> 0]

Init ==
  /\ prog \in {"wifi", "basic"}
  /\ pc = "boot"
  /\ disk \in BootFiles
  /\ fOpen = FALSE
  /\ fPos = 0
  /\ hdr = NoHdr
  /\ frameSize = 0
  /\ frameDelayMs = 66
  /\ hasHeader = FALSE
  /\ lastMs = ToU32(0)
  /\ now = ToU32(0)
  /\ uploadFile = FALSE
  /\ upState = "idle"
  /\ replacing = FALSE
  /\ openRet = FALSE
  /\ lastAct = "init"
  /\ tickReads = 0
  /\ buf = <<>>
  /\ bufOff = -1
  /\ tiles = <<>>
  /\ sent = <<>>
  /\ nLoops = 0
  /\ nEvents = 0

\* the globals an open sets, from the record s an open returns
SetSession(s) ==
  /\ fOpen' = s.fOpen
  /\ fPos' = s.fPos
  /\ hasHeader' = s.hasHeader
  /\ hdr' = s.hdr
  /\ frameSize' = s.frameSize
  /\ frameDelayMs' = s.frameDelayMs

NoTick == /\ tickReads' = 0 /\ buf' = <<>> /\ tiles' = <<>>

\* setup() of wifi-videoplayer.ino: the boot-time open
setup ==
  /\ prog = "wifi" /\ pc = "boot"
  /\ LET s == openMovieFileAndReadHeader(disk, hdr, frameSize, frameDelayMs) IN
       /\ SetSession(s)
       /\ openRet' = s.ret
  /\ pc' = "run"
  /\ lastAct' = "setup"
  /\ bufOff' = -1
  /\ NoTick
  /\ UNCHANGED <<prog, disk, lastMs, now, uploadFile, upState, replacing,
                 sent, nLoops, nEvents>>

\* ---- loop() of wifi-videoplayer.ino, one iteration ----

Millis(d) == AddU32(now, d)
\* mutant: the comparison is made on lastMs + frameDelayMs, which wraps before now does
Due_Deadline(t) == ~LtU32(t, AddU32(lastMs, frameDelayMs))

\* !(now - lastMs < frameDelayMs), the subtraction in uint32_t
Due(t) == ~LtU32(SubU32(t, lastMs), ToU32(frameDelayMs))

LoopFrame == <<prog, pc, disk, fOpen, hdr, frameSize, frameDelayMs, hasHeader,
                  uploadFile, upState, replacing, openRet, sent, nEvents>>

\* 42,949,672 iterations of the branch below, 100 ms each: 4,294,967,200 ms, 96 ms short
\* of a full turn of the 32-bit millisecond clock
IdleRunMs == <<65535, 65440>>

\* the time one step of loopNoFile takes: one iteration, or a run of iterations (each of
\* which changes nothing but the clock) that brings the clock to its wrap-around; the run
\* is explored once, from the first iteration
NoFileWaits == {ToU32(NoFileDelayMs)} \cup (IF nLoops = 0 THEN {IdleRunMs} ELSE {})

\* mutant: the scheduler reopens the stream by itself when it finds the handle closed
loopNoFile_Reopens ==
  /\ prog = "wifi" /\ pc = "run" /\ nLoops < MaxLoops
  /\ ~fOpen
  /\ now' = Millis(NoFileDelayMs)
  /\ SetSession(openMovieFileAndReadHeader(disk, hdr, frameSize, frameDelayMs))
  /\ lastAct' = "loopNoFile"
  /\ nLoops' = nLoops + 1
  /\ NoTick
  /\ UNCHANGED <<lastMs, bufOff>>
  /\ UNCHANGED <<prog, pc, disk, uploadFile, upState, replacing, openRet, sent, nEvents>>

\* if (!f) { yield(); delay(100); return; }
loopNoFile ==
  /\ prog = "wifi" /\ pc = "run" /\ nLoops < MaxLoops
  /\ ~fOpen
  /\ \E t \in NoFileWaits : now' = PlusU32(now, t)
  /\ lastAct' = "loopNoFile"
  /\ nLoops' = nLoops + 1
  /\ NoTick
  /\ UNCHANGED <<fPos, lastMs, bufOff>>
  /\ UNCHANGED LoopFrame

\* if (now - lastMs < frameDelayMs) { yield(); return; }
loopNotDue ==
  /\ prog = "wifi" /\ pc = "run" /\ nLoops < MaxLoops
  /\ fOpen
  /\ \E d \in Deltas : /\ ~Due(Millis(d))
                       /\ now' = Millis(d)
  /\ lastAct' = "loopNotDue"
  /\ nLoops' = nLoops + 1
  /\ NoTick
  /\ UNCHANGED <<fPos, lastMs, bufOff>>
  /\ UNCHANGED LoopFrame

\* mutant: the cursor is put back to the first frame after the second short read
CursorAfterRetry_Reset(first, r2) == first

\* f.seek(first); f.read(buf, frameSize) delivering r2: where the cursor is afterwards
CursorAfterRetry(first, r2) == first + Len(r2)

\* mutant: the server is serviced between the read and the page writes, and an
\* UPLOAD_FILE_START handled there closes the handle
loopDraw_ClientMidTick ==
  /\ prog = "wifi" /\ pc = "run" /\ nLoops < MaxLoops
  /\ fOpen
  /\ \E d \in Deltas : /\ Due(Millis(d))
                       /\ now' = Millis(d)
                       /\ lastMs' = Millis(d)
  /\ LET r1 == FileRead(disk.data, fPos, frameSize)
     IN /\ Len(r1) >= frameSize
        /\ tickReads' = 1
        /\ buf' = r1
        /\ bufOff' = fPos
        /\ fPos' = fPos + Len(r1)
  /\ fOpen' = safeCloseFile(fOpen)
  /\ tiles' = DrawTiles(buf', hdr)
  /\ lastAct' = "loopDraw"
  /\ nLoops' = nLoops + 1
  /\ UNCHANGED <<prog, pc, disk, hdr, frameSize, frameDelayMs, hasHeader,
                 uploadFile, upState, replacing, openRet, sent, nEvents>>

\* the first read delivers a whole frame, or the read after the seek does
loopDraw ==
  /\ prog = "wifi" /\ pc = "run" /\ nLoops < MaxLoops
  /\ fOpen
  /\ \E d \in Deltas : /\ Due(Millis(d))
                       /\ now' = Millis(d)
                       /\ lastMs' = Millis(d)
  /\ LET r1 == FileRead(disk.data, fPos, frameSize)
         first == FirstFrameOffset(hasHeader)
         r2 == FileRead(disk.data, first, frameSize)
     IN \/ /\ Len(r1) >= frameSize
           /\ tickReads' = 1
           /\ buf' = r1
           /\ bufOff' = fPos
           /\ fPos' = fPos + Len(r1)
        \/ /\ Len(r1) < frameSize
           /\ Len(r2) >= frameSize
           /\ tickReads' = 2
           /\ buf' = r2
           /\ bufOff' = first
           /\ fPos' = CursorAfterRetry(first, r2)
  /\ tiles' = DrawTiles(buf', hdr)
  /\ lastAct' = "loopDraw"
  /\ nLoops' = nLoops + 1
  /\ UNCHANGED LoopFrame

\* mutant: lastMs is written only once a frame has been drawn
loopShort_KeepsLastMs ==
  /\ prog = "wifi" /\ pc = "run" /\ nLoops < MaxLoops
  /\ fOpen
  /\ \E d \in Deltas : /\ Due(Millis(d))
                       /\ now' = Millis(d)
  /\ LET r1 == FileRead(disk.data, fPos, frameSize)
         first == FirstFrameOffset(hasHeader)
         r2 == FileRead(disk.data, first, frameSize)
     IN /\ Len(r1) < frameSize
        /\ Len(r2) < frameSize
        /\ fPos' = CursorAfterRetry(first, r2)
  /\ tickReads' = 2
  /\ buf' = <<>>
  /\ tiles' = <<>>
  /\ lastAct' = "loopShort"
  /\ nLoops' = nLoops + 1
  /\ UNCHANGED <<bufOff, lastMs>>
  /\ UNCHANGED LoopFrame

\* both reads short: "Short frame or corrupt file", nothing drawn
loopShort ==
  /\ prog = "wifi" /\ pc = "run" /\ nLoops < MaxLoops
  /\ fOpen
  /\ \E d \in Deltas : /\ Due(Millis(d))
                       /\ now' = Millis(d)
                       /\ lastMs' = Millis(d)
  /\ LET r1 == FileRead(disk.data, fPos, frameSize)
         first == FirstFrameOffset(hasHeader)
         r2 == FileRead(disk.data, first, frameSize)
     IN /\ Len(r1) < frameSize
        /\ Len(r2) < frameSize
        /\ fPos' = CursorAfterRetry(first, r2)
  /\ tickReads' = 2
  /\ buf' = <<>>
  /\ tiles' = <<>>
  /\ lastAct' = "loopShort"
  /\ nLoops' = nLoops + 1
  /\ UNCHANGED bufOff
  /\ UNCHANGED LoopFrame

loop == loopNoFile \/ loopNotDue \/ loopDraw \/ loopShort

\* ---- handleUpload() of wifi-videoplayer.ino, one call per transport event ----

UploadFrame == <<prog, pc, lastMs, now, nLoops>>
Event == /\ prog = "wifi" /\ pc = "run" /\ nEvents < MaxEvents
         /\ nEvents' = nEvents + 1

\* mutant: the old file is kept and opened for appending
RemoveAndCreate_Append(d, ok) == IF ok THEN File(d.data) ELSE d

\* LittleFS.remove if the file exists, then LittleFS.open(..., "w"): the stored file after
RemoveAndCreate(d, ok) == IF ok THEN File(<<>>) ELSE NoFile

\* upload.status == UPLOAD_FILE_START; the open for writing may fail
UploadFileStart ==
  /\ Event
  /\ fOpen' = (IF fOpen THEN safeCloseFile(fOpen) ELSE fOpen)
  /\ \E ok \in BOOLEAN :
       /\ disk' = RemoveAndCreate(disk, ok)
       /\ uploadFile' = ok
  /\ sent' = <<>>
  /\ upState' = "active"
  /\ replacing' = TRUE
  /\ lastAct' = "UploadFileStart"
  /\ bufOff' = -1
  /\ NoTick
  /\ UNCHANGED <<fPos, hdr, frameSize, frameDelayMs, hasHeader, openRet>>
  /\ UNCHANGED UploadFrame

\* upload.status == UPLOAD_FILE_WRITE
UploadFileWrite ==
  /\ Event /\ upState = "active"
  /\ \E c \in UploadChunks :
       /\ disk' = IF uploadFile THEN [disk EXCEPT !.data = @ \o c] ELSE disk
       /\ sent' = sent \o c
  /\ lastAct' = "UploadFileWrite"
  /\ NoTick
  /\ UNCHANGED <<fOpen, fPos, hdr, frameSize, frameDelayMs, hasHeader, openRet,
                 uploadFile, upState, replacing, bufOff>>
  /\ UNCHANGED UploadFrame

\* upload.status == UPLOAD_FILE_END: close, reopen, reload the playback parameters
UploadFileEnd ==
  /\ Event /\ upState = "active"
  /\ uploadFile' = FALSE
  /\ LET s == openMovieFileAndReadHeader(disk, hdr, frameSize, frameDelayMs) IN
       /\ openRet' = s.ret
       /\ IF ~s.ret /\ disk.exists
          THEN \* the second LittleFS.open succeeded: legacy values, frame_count kept
               SetSession([LegacySession EXCEPT !.hdr.frame_count = hdr.frame_count])
          ELSE SetSession(s)
  /\ upState' = "idle"
  /\ replacing' = FALSE
  /\ lastAct' = "UploadFileEnd"
  /\ bufOff' = -1
  /\ NoTick
  /\ UNCHANGED <<disk, sent>>
  /\ UNCHANGED UploadFrame

\* upload.status == UPLOAD_FILE_ABORTED: handleUpload has no branch for it
UploadFileAborted ==
  /\ Event /\ upState = "active"
  /\ upState' = "idle"
  /\ lastAct' = "UploadFileAborted"
  /\ NoTick
  /\ UNCHANGED <<disk, fOpen, fPos, hdr, frameSize, frameDelayMs, hasHeader, openRet,
                 uploadFile, replacing, bufOff, sent>>
  /\ UNCHANGED UploadFrame

handleUpload == UploadFileStart \/ UploadFileWrite \/ UploadFileEnd \/ UploadFileAborted

\* sendStatusPage(): what the page served at /status reports, from the state it reads
sendStatusPage ==
  IF disk.exists
  THEN IF hasHeader
       THEN [file |-> "exists", size |-> Len(disk.data), mode |-> "header",
             width |-> hdr.width, height |-> hdr.height, fps_milli |-> hdr.fps_milli,
             frames |-> hdr.frame_count, frameSize |-> frameSize,
             frameDelayMs |-> frameDelayMs]
       ELSE [file |-> "exists", size |-> Len(disk.data), mode |-> "legacy"]
  ELSE [file |-> "not found", mode |-> "none"]

\* ---- part_000: setup() and loop() of the stand-alone player ----

BasicFrame == <<prog, disk, uploadFile, upState, replacing, openRet, sent, nEvents>>

\* setup(): open /movie.bin or stop in while (1); readHeader() or the legacy fallback
basic_setup ==
  /\ prog = "basic" /\ pc = "boot"
  /\ IF ~disk.exists
     THEN /\ pc' = "halt"
          /\ UNCHANGED <<fOpen, fPos, hasHeader, hdr, frameSize, frameDelayMs>>
     ELSE /\ pc' = "run"
          /\ fOpen' = TRUE
          /\ LET rh == readHeader(disk.data) IN
               /\ hasHeader' = rh.ok
               /\ IF rh.ok
                  THEN /\ hdr' = rh.hdr
                       /\ frameSize' = rh.frameSize
                       /\ frameDelayMs' = rh.frameDelayMs
                       /\ fPos' = HeaderSize
                  ELSE /\ hdr' = LegacySession.hdr
                       /\ frameSize' = 128 * (64 \div 8)
                       /\ frameDelayMs' = 1000 \div 15
                       /\ fPos' = 0
  /\ lastAct' = "basic_setup"
  /\ bufOff' = -1
  /\ NoTick
  /\ UNCHANGED <<lastMs, now, nLoops>>
  /\ UNCHANGED BasicFrame

\* if (now - lastMs < frameDelayMs) { yield(); return; }
basic_loopNotDue ==
  /\ prog = "basic" /\ pc = "run" /\ nLoops < MaxLoops
  /\ \E d \in Deltas : /\ ~Due(Millis(d))
                       /\ now' = Millis(d)
  /\ lastAct' = "basic_loopNotDue"
  /\ nLoops' = nLoops + 1
  /\ NoTick
  /\ UNCHANGED <<pc, fOpen, fPos, hasHeader, hdr, frameSize, frameDelayMs, lastMs, bufOff>>
  /\ UNCHANGED BasicFrame

\* the buffer after the reads: r2 over r1 over what new uint8_t[frameSize] held
BasicBuffer(r1, r2, g) ==
  [i \in 1..frameSize |-> IF i <= Len(r2) THEN r2[i]
                          ELSE IF i <= Len(r1) THEN r1[i] ELSE g]

\* read a frame; on a short read seek back and read again (result unchecked); draw
basic_loopDraw ==
  /\ prog = "basic" /\ pc = "run" /\ nLoops < MaxLoops
  /\ \E d \in Deltas : /\ Due(Millis(d))
                       /\ now' = Millis(d)
                       /\ lastMs' = Millis(d)
  /\ LET r1 == FileRead(disk.data, fPos, frameSize)
         first == FirstFrameOffset(hasHeader)
         r2 == FileRead(disk.data, first, frameSize)
     IN IF Len(r1) >= frameSize
        THEN /\ tickReads' = 1
             /\ buf' = r1
             /\ bufOff' = fPos
             /\ fPos' = fPos + Len(r1)
        ELSE /\ tickReads' = 2
             /\ \E g \in UninitBytes : buf' = BasicBuffer(r1, r2, g)
             /\ bufOff' = first
             /\ fPos' = CursorAfterRetry(first, r2)
  /\ tiles' = DrawTiles(buf', hdr)
  /\ lastAct' = "basic_loopDraw"
  /\ nLoops' = nLoops + 1
  /\ UNCHANGED <<pc, fOpen, hasHeader, hdr, frameSize, frameDelayMs>>
  /\ UNCHANGED BasicFrame

basic_loop == basic_loopNotDue \/ basic_loopDraw

Next == setup \/ loop \/ handleUpload \/ basic_setup \/ basic_loop

Spec == Init /\ [][Next]_vars

\* ---- the claims ----

Opens == {"setup", "basic_setup", "UploadFileEnd"}
Draws == {"loopDraw", "basic_loopDraw"}
Loops == {"loopNoFile", "loopNotDue", "loopDraw", "loopShort",
          "basic_loopNotDue", "basic_loopDraw"}

\* the facts of a stored file, read from its bytes
ValidHeader(data) ==
  /\ Len(data) >= 32
  /\ SubSeq(data, 1, 8) = <<83, 83, 68, 49, 51, 48, 54, 86>>
  /\ RdU16(data, 10) % 8 = 0
StreamStart == IF hasHeader THEN 32 ELSE 0
\* complete frames of the open stream
NFrames == (Len(disk.data) - StreamStart) \div frameSize
FrameAt(k) == SubSeq(disk.data, StreamStart + k * frameSize + 1,
                     StreamStart + (k + 1) * frameSize)
FrameIdx == (bufOff - StreamStart) \div frameSize

\* C1: while a replace is in progress (after UPLOAD_FILE_START, before the matching
\* UPLOAD_FILE_END) the handle f is closed and no loop() iteration reads the file
\* or calls drawTile: no byte of the old file reaches the sink.
C1_HotSwapBlanks ==
  replacing => /\ ~fOpen
               /\ tickReads = 0
               /\ buf = <<>>
               /\ tiles = <<>>

\* a loop iteration ran during a replace of a stream that had been playing
C1_Witness ==
  /\ replacing /\ lastAct = "loopNoFile"
  /\ frameSize = 1024 /\ hasHeader
  /\ disk.exists /\ Len(disk.data) > 0

\* C2: for a stream holding n >= 1 complete frames, successive rendering ticks dispatch
\* frame 0, 1, ..., n-1, 0, 1, ... in file order; on the tick whose read comes up short
\* the cursor is set to the first-frame offset (32 with a header, 0 for a legacy stream)
\* and that same tick dispatches the first frame, with frameSize unchanged.
C2_Looping ==
  [][(lastAct' \in Draws /\ NFrames >= 1) =>
       /\ frameSize' = frameSize
       /\ FrameIdx' = (IF bufOff = -1 THEN 0 ELSE (FrameIdx + 1) % NFrames)
       /\ bufOff' = StreamStart + FrameIdx' * frameSize
       /\ buf' = FrameAt(FrameIdx')
       /\ \A p \in DOMAIN tiles' : \A i \in DOMAIN tiles'[p].data :
            tiles'[p].data[i] = buf'[(tiles'[p].y) * hdr.width + i]
       /\ (tickReads' = 2 => /\ bufOff' = StreamStart
                              /\ fPos' = StreamStart + frameSize
                              /\ FrameIdx = NFrames - 1)
    ]_vars

\* the 3-frame headered stream wrapped: the 4th rendering tick read short, sought to 32
\* and dispatched the first frame again
C2_Witness ==
  /\ lastAct = "loopDraw" /\ tickReads = 2
  /\ hasHeader /\ hdr.frame_count = 3 /\ NFrames = 3
  /\ bufOff = 32 /\ fPos = 48
  /\ buf = SubSeq(disk.data, 33, 48)

\* C3: one tick makes at most one seek-and-retry (at most two reads); when the retry is
\* short too, nothing is dispatched on that tick, the handle stays open and the player
\* keeps running.
C3_BoundedRetry ==
  /\ tickReads <= 2
  /\ (lastAct \in Loops /\ tickReads = 2 /\ fPos < StreamStart + frameSize) =>
        /\ tiles = <<>>
        /\ fOpen
        /\ pc = "run"
\* what a decode of the stored bytes must yield, field by field
LegacyShape ==
  /\ ~hasHeader
  /\ hdr.width = 128 /\ hdr.height = 64
  /\ frameSize = 1024
  /\ frameDelayMs = 66
  /\ hdr.flags = 0
  /\ hdr.frame_count = 0
HeaderShape(data) ==
  /\ hasHeader
  /\ hdr.width = RdU16(data, 8) /\ hdr.height = RdU16(data, 10)
  /\ frameSize = RdU16(data, 8) * (RdU16(data, 10) \div 8)
  /\ hdr.flags = data[21]
  /\ hdr.frame_count = RdU32(data, 16)

\* C4: after UPLOAD_FILE_END, when the stored file can be opened, f is open and
\* hasHeader, width, height, frameSize, frameDelayMs and the cursor are those of a decode
\* of the new file (valid header: cursor 32; otherwise legacy 128x64, cursor 0); nothing
\* of the previous session is left.
C4_EndOfReplace ==
  (lastAct = "UploadFileEnd" /\ disk.exists) =>
     /\ fOpen
     /\ IF ValidHeader(disk.data)
        THEN /\ HeaderShape(disk.data)
             /\ frameDelayMs = fpsMilliToMs(RdU32(disk.data, 12))
             /\ fPos = 32
        ELSE /\ LegacyShape
             /\ fPos = 0

\* a replace ended on an uploaded 8x16 @ 30 fps stream: its parameters are in force
C4_Witness ==
  /\ lastAct = "UploadFileEnd" /\ fOpen /\ hasHeader
  /\ hdr.width = 8 /\ hdr.height = 16 /\ frameSize = 16
  /\ frameDelayMs = 33 /\ fPos = 32
  /\ Len(disk.data) = 64

\* C5: for every valid header frameDelayMs = round(1000000 / fps_milli), half up;
\* fps_milli = 15000 gives 67; fps_milli = 0 counts as 15000.
C5_RoundedDelay ==
  (lastAct \in Opens /\ fOpen /\ hasHeader) =>
     LET given == RdU32(disk.data, 12)
         fps == IF given = 0 THEN 15000 ELSE given
     IN frameDelayMs = (2 * 1000000 + fps) \div (2 * fps)

\* C6: a file that opens and whose first 8 bytes are not the magic, or that is shorter
\* than the 32-byte header, decodes as legacy: hasHeader false, 128x64, frameSize 1024,
\* frameDelayMs 66, flags 0, frame count 0, cursor at offset 0.
C6_LegacyDetection ==
  (lastAct \in Opens /\ disk.exists
     /\ (Len(disk.data) < 32 \/ SubSeq(disk.data, 1, 8) # <<83, 83, 68, 49, 51, 48, 54, 86>>)) =>
        /\ fOpen
        /\ LegacyShape
        /\ fPos = 0

\* the boot-time open of the headerless file of two raw frames
C6_Witness ==
  /\ lastAct = "setup" /\ disk = LegacyFile
  /\ fOpen /\ ~hasHeader /\ fPos = 0 /\ frameSize = 1024

\* the stored byte behind byte i of drawTile call p of the last rendering tick
StoredByte(p, i) == disk.data[bufOff + tiles[p].y * hdr.width + i]
\* the last tick dispatched a frame that the file holds completely
DrewWholeFrame == lastAct \in Draws /\ bufOff + frameSize <= Len(disk.data)

\* C7 (as stated): for the scenario stream frameSize = 1024, frameDelayMs = 33 and every
\* byte dispatched is the complement of the stored byte because flags bit 0 is set; with
\* the bit clear the bytes are dispatched unchanged.
C7_InvertOnPlayback ==
  /\ (lastAct \in Draws /\ disk = ScenarioFile) =>
        /\ frameSize = 1024 /\ frameDelayMs = 33
  /\ DrewWholeFrame =>
        \A p \in DOMAIN tiles : \A i \in DOMAIN tiles[p].data :
           tiles[p].data[i] = (IF hdr.flags % 2 = 1 THEN 255 - StoredByte(p, i)
                               ELSE StoredByte(p, i))

\* C7 (amended): for the scenario stream frameSize = 1024, frameDelayMs = 33 and the frame
\* goes out as 8 page rows of 128 bytes; every byte dispatched equals the stored byte,
\* whether flags bit 0 is set or clear.
C7_StoredBytesUnchanged ==
  /\ (lastAct \in Draws /\ disk = ScenarioFile) =>
        /\ frameSize = 1024 /\ frameDelayMs = 33
        /\ Len(tiles) = 8
        /\ \A p \in DOMAIN tiles : Len(tiles[p].data) = 128
  /\ DrewWholeFrame =>
        \A p \in DOMAIN tiles : \A i \in DOMAIN tiles[p].data :
           tiles[p].data[i] = StoredByte(p, i)

\* the second frame of the scenario stream (flags = 1) was dispatched
C7_Witness ==
  /\ lastAct = "loopDraw" /\ disk = ScenarioFile
  /\ hdr.flags = 1 /\ bufOff = 32 + 1024
  /\ Len(tiles) = 8
  /\ tiles[8].data[128] = disk.data[32 + 2048]

\* C8: for every file that can be opened openMovieFileAndReadHeader returns true and
\* leaves f open, headered exactly when the magic matches and height is a multiple of 8,
\* legacy otherwise; it returns false, f closed and hasHeader false, only when the file
\* cannot be opened.
C8_FormatErrorsNotFatal ==
  lastAct \in {"setup", "UploadFileEnd"} =>
     IF disk.exists
     THEN /\ openRet /\ fOpen
          /\ hasHeader = ValidHeader(disk.data)
          /\ (~hasHeader => LegacyShape)
     ELSE /\ ~openRet /\ ~fOpen /\ ~hasHeader

\* the boot-time open of a file with the magic and height 60
C8_Witness ==
  /\ lastAct = "setup" /\ disk = BadHeightFile
  /\ openRet /\ fOpen /\ ~hasHeader /\ hdr.height = 64

\* C9: while f is open frameSize = width * (height / 8) of the current session; frameSize
\* changes only in an open (boot or end of replace); a frame read that succeeds consumes
\* exactly frameSize bytes.
C9_FrameSize ==
  /\ [](fOpen => frameSize = hdr.width * (hdr.height \div 8))
  /\ [][/\ (frameSize' # frameSize => lastAct' \in Opens)
        /\ ((lastAct' \in Draws /\ bufOff' + frameSize' <= Len(disk'.data)) =>
              /\ Len(buf') = frameSize'
              /\ fPos' = bufOff' + frameSize')
       ]_vars

\* a 16-byte frame of an 8x16 stream was read and dispatched
C9_Witness ==
  /\ lastAct = "loopDraw" /\ fOpen
  /\ hdr.width = 8 /\ hdr.height = 16 /\ frameSize = 16
  /\ Len(buf) = 16 /\ fPos = bufOff + 16

\* C10: frameDelayMs is clamped to at least 1 ms: after any open, whatever fps_milli the
\* header gives, frameDelayMs >= 1.
C10_MinDelay == frameDelayMs >= 1

\* C11: replacing the file is delete-then-create.  While an upload whose open for writing
\* succeeded is in progress, and when it has ended, the stored file is exactly the chunks
\* delivered since UPLOAD_FILE_START, concatenated in arrival order: no byte of the file
\* that was there before remains and nothing is appended to it.
C11_DeleteThenCreate ==
  /\ (upState = "active" /\ uploadFile) => disk = File(sent)
  /\ (lastAct = "UploadFileEnd" /\ disk.exists) => disk.data = sent

\* a header chunk and a chunk of two frames have been stored and the stream reopened on them
C11_Witness ==
  /\ lastAct = "UploadFileEnd"
  /\ disk.exists
  /\ Len(sent) = HeaderSize + 32
  /\ disk.data = sent
  /\ hasHeader
  /\ nLoops > 0

\* the Playback Session State the claims name
Session == <<fOpen, hasHeader, frameSize, frameDelayMs, hdr.width, hdr.height, hdr.flags>>

\* C12: only the boot-time open and the end of a replace change the session.  A loop
\* iteration leaves the handle as open or closed as it was and leaves hasHeader, frameSize,
\* frameDelayMs, width, height and flags alone; the handle goes from closed to open only in
\* setup's open or at UPLOAD_FILE_END.
C12_OnlyOpensReplaceSession ==
  [][ /\ lastAct' \in Loops => Session' = Session
      /\ (~fOpen /\ fOpen') => lastAct' \in Opens ]_vars

\* ticks have run on a session that an upload put in place, and the handle was found
\* closed by a tick before that
C12_Witness ==
  /\ lastAct = "loopDraw"
  /\ openRet
  /\ nEvents >= 3
  /\ nLoops >= 3
  /\ fOpen /\ hasHeader

\* C13: a failed open suppresses rendering without halting.  When the file is missing at
\* boot the program goes on running its loop with the handle closed; while the handle is
\* closed no tick dispatches anything, and a frame is dispatched only with the handle open.
C13_OpenFailureKeepsRunning ==
  /\ (pc # "boot" /\ ~disk.exists /\ nEvents = 0) => (pc = "run" /\ ~fOpen /\ ~hasHeader)
  /\ ~fOpen => (tiles = <<>> /\ buf = <<>> /\ tickReads = 0)
  /\ lastAct \in Draws => fOpen

\* (a - b) modulo 2^32 >= n, for a and b as 16-bit halves and n below 2^31 - 2^16,
\* computed on the difference of the halves
ElapsedAtLeast(a, b, n) ==
  LET hd == (a[1] - b[1] + U16) % U16
      ld == a[2] - b[2]
  IN IF hd = 0 THEN ld < 0 \/ ld >= n
     ELSE IF hd < U16 \div 2 THEN hd * U16 + ld >= n
     ELSE TRUE

Ticks == {"loopDraw", "loopShort", "basic_loopDraw"}
NotDues == {"loopNotDue", "basic_loopNotDue"}

\* C14: frame pacing.  An iteration with the handle open reads a frame only if the time
\* since lastMs, taken modulo 2^32, is at least frameDelayMs; an iteration that comes
\* earlier reads nothing, writes nothing to the display and leaves the cursor, lastMs and
\* the session as they were.
C14_FramePacing ==
  [][ /\ lastAct' \in Ticks => ElapsedAtLeast(now', lastMs, frameDelayMs)
      /\ lastAct' \in NotDues =>
           /\ ~ElapsedAtLeast(now', lastMs, frameDelayMs)
           /\ fPos' = fPos /\ lastMs' = lastMs /\ Session' = Session
           /\ tiles' = <<>> /\ tickReads' = 0 ]_vars

\* an iteration that came too early although the clock had wrapped since the last frame:
\* now is numerically below lastMs
C14_Witness ==
  /\ lastAct = "loopNotDue"
  /\ now[1] = 0
  /\ lastMs[1] = U16 - 1
  /\ fOpen

UploadEvents == {"UploadFileStart", "UploadFileWrite", "UploadFileEnd", "UploadFileAborted"}

\* C15: cooperative interleaving.  Upload events are handled between ticks, never inside
\* one: a loop iteration makes at most two reads and dispatches at most one frame, drawn
\* with the header the iteration started with, and leaves the session, the stored file and
\* the upload in progress as they were; an upload event dispatches nothing and does not
\* move lastMs.
C15_CooperativeInterleaving ==
  [][ /\ lastAct' \in Loops =>
           /\ Session' = Session /\ hdr' = hdr
           /\ disk' = disk /\ uploadFile' = uploadFile /\ upState' = upState
           /\ nEvents' = nEvents
           /\ tickReads' <= 2
           /\ tiles' = <<>> \/ (Len(buf') = frameSize /\ tiles' = DrawTiles(buf', hdr))
           /\ Len(tiles') <= (hdr.height \div 8) % U8
      /\ lastAct' \in UploadEvents =>
           /\ tiles' = <<>> /\ buf' = <<>> /\ tickReads' = 0
           /\ lastMs' = lastMs /\ nLoops' = nLoops ]_vars

\* a tick has dispatched a frame of an uploaded file, after ticks that ran before and
\* during the upload
C15_Witness ==
  /\ lastAct = "loopDraw"
  /\ Len(sent) > 0 /\ disk.data = sent
  /\ nEvents >= 3
  /\ nLoops >= 2
  /\ Len(tiles) = 2
  /\ tickReads = 1

\* C16, as stated: lastMs is updated only by a tick that has read a frame and handed it to
\* the display; a tick that drops the frame leaves lastMs unchanged.
C16_LastTickAfterRender ==
  [][ /\ lastAct' = "loopShort" => lastMs' = lastMs
      /\ lastMs' # lastMs => lastAct' \in Draws ]_vars

\* C16, amended: lastMs is set to the iteration's clock reading by every tick that is due,
\* before the frame is read, so also by a tick that drops the frame; every other step
\* leaves it unchanged.
C16_LastTickAtTickStart ==
  [][ /\ lastAct' \in Ticks => lastMs' = now'
      /\ lastAct' \notin Ticks => lastMs' = lastMs ]_vars

\* a tick has dropped its frame and lastMs is the time of that tick
C16_Witness ==
  /\ lastAct = "loopShort"
  /\ tickReads = 2
  /\ tiles = <<>>
  /\ lastMs = now
  /\ lastMs # ToU32(0)

\* C17: page dispatch.  A frame that has been read is dispatched as exactly height / 8
\* drawTile calls, for pages 0 .. height / 8 - 1 in ascending order, call p taking its
\* bytes from offset p * width of the buffer and covering width / 8 tiles: the 8-bit page
\* and tile counters hold these counts without truncation.
C17_PageDispatch ==
  lastAct \in Draws =>
    /\ Len(tiles) = hdr.height \div 8
    /\ \A p \in DOMAIN tiles :
         /\ tiles[p].x = 0
         /\ tiles[p].y = p - 1
         /\ tiles[p].cnt = hdr.width \div 8
         /\ tiles[p].data = SubSeq(buf, (p - 1) * hdr.width + 1,
                                   (p - 1) * hdr.width + 8 * (hdr.width \div 8))

\* C18, as stated: after a tick that drops a frame the read cursor is at the first-frame
\* offset, 32 with a header and 0 without.
C18_CursorResetAfterDrop ==
  lastAct = "loopShort" => fPos = FirstFrameOffset(hasHeader)

\* C18, amended: after a tick that drops a frame the read cursor is at the end of the
\* file, the first-frame offset plus the bytes the retry delivered, fewer than frameSize;
\* the next due tick then makes a short first read, seeks to the first-frame offset, reads
\* short again and drops its frame too, leaving the cursor where it was.
C18_CursorAtEndAfterDrop ==
  /\ [](lastAct = "loopShort" =>
          /\ fPos = Len(disk.data)
          /\ fPos >= FirstFrameOffset(hasHeader)
          /\ fPos < FirstFrameOffset(hasHeader) + frameSize)
  /\ [][ (lastAct = "loopShort" /\ lastAct' \in Ticks) =>
            /\ lastAct' = "loopShort"
            /\ tickReads' = 2
            /\ fPos' = fPos ]_vars

\* a second tick in a row has dropped its frame, the cursor past the first-frame offset
C18_Witness ==
  /\ lastAct = "loopShort"
  /\ hasHeader
  /\ fPos > HeaderSize
  /\ nLoops >= 2
  /\ bufOff = -1

\* C19: every buffer dispatched holds exactly frameSize bytes that one complete read of
\* the open file delivered, starting at the first-frame offset plus a whole number of
\* frames; a buffer that a read filled only in part, or not at all, is never dispatched,
\* whatever the length of the file.
C19_WholeFramesOnly ==
  lastAct \in Draws =>
    /\ Len(buf) = frameSize
    /\ bufOff >= StreamStart
    /\ (bufOff - StreamStart) % frameSize = 0
    /\ bufOff + frameSize <= Len(disk.data)
    /\ buf = SubSeq(disk.data, bufOff + 1, bufOff + frameSize)

\* C20: status consistency, in the player that serves the status page.  hasHeader is
\* true only while f is open on a file whose header is valid; while a replace is in
\* progress, and after an open that failed, hasHeader is false and the status page does
\* not report a header, frameSize or frameDelayMs (those would be the previous stream's).
C20_StatusConsistency ==
  prog = "wifi" =>
    /\ hasHeader => (fOpen /\ ValidHeader(disk.data))
    /\ (upState = "active" \/ (lastAct \in Opens /\ ~openRet)) =>
          (~hasHeader /\ sendStatusPage.mode # "header")

====
